---- MODULE Spec2Model ----
(***************************************************************************)
(* The in-process fixed-window rate limiter of lib/rate-limit             *)
(* (src/unnamed/part_000): the process-wide counter store, the window     *)
(* check built by rateLimit, the default key derivation, the periodic     *)
(* sweep and the tiered limiter built by createTieredRateLimit.           *)
(*                                                                         *)
(* Time is Date.now() in milliseconds.  A request is served by a handler  *)
(* that runs on a single-threaded event loop: every action below is one   *)
(* synchronous run of code between two suspension points (await).         *)
(***************************************************************************)
EXTENDS Integers, Sequences, FiniteSets, TLC

\* ------------------------------------------------------------------ bounds

\* The clock advances in steps of TickMs up to MaxTime (up to MaxTimeTiered
\* in the runs of the tiered limiter).
TickMs == 500
MaxTime == 3000
MaxTimeTiered == 1500
\* At most MaxRequests requests are issued in a run.
MaxRequests == 3

\* The request slots: requests that can be in flight at the same time.  A
\* new request takes the lowest free slot.
Requests == {1, 2}

\* ------------------------------------------------------------ text values

\* A header value is a sequence of characters; Null is an absent header.
Null == <<"null">>
Space == " "
Comma == ","
Unknown == <<"u", "n", "k", "n", "o", "w", "n">>
KeyPrefix == <<"rate_limit:">>

\* String.prototype.split(",")[0]: the text before the first comma.
RECURSIVE FirstEntry(_)
FirstEntry(s) ==
    IF s = <<>> \/ Head(s) = Comma THEN <<>>
    ELSE <<Head(s)>> \o FirstEntry(Tail(s))

\* String.prototype.trim(): leading and trailing white space removed.
RECURSIVE TrimLeft(_)
TrimLeft(s) ==
    IF s # <<>> /\ Head(s) = Space THEN TrimLeft(Tail(s)) ELSE s

RECURSIVE TrimRight(_)
TrimRight(s) ==
    IF s # <<>> /\ s[Len(s)] = Space THEN TrimRight(SubSeq(s, 1, Len(s) - 1)) ELSE s

Trim(s) == TrimRight(TrimLeft(s))

\* A value is falsy for || when it is null/undefined or the empty string.
Falsy(s) == s = Null \/ s = <<>>

\* Variant: only a missing value falls back (?? in the place of ||).
DefaultKeyGeneratorNullish(headers) ==
    LET first == IF headers.forwarded = Null THEN Null
                 ELSE Trim(FirstEntry(headers.forwarded))
        ip == IF first # Null THEN first
              ELSE IF headers.realIP # Null THEN headers.realIP
              ELSE Unknown
    IN  KeyPrefix \o ip

\* forwarded?.split(",")[0]?.trim() || realIP || "unknown", then the prefix.
DefaultKeyGenerator(headers) ==
    LET first == IF headers.forwarded = Null THEN Null
                 ELSE Trim(FirstEntry(headers.forwarded))
        ip == IF ~Falsy(first) THEN first
              ELSE IF ~Falsy(headers.realIP) THEN headers.realIP
              ELSE Unknown
    IN  KeyPrefix \o ip

\* The requests' identifying headers (x-forwarded-for, x-real-ip).
Clients ==
    { [forwarded |-> <<"a", Comma, Space, "b">>, realIP |-> Null],
      [forwarded |-> Null, realIP |-> <<"a">>],
      [forwarded |-> <<Space>>, realIP |-> Null] }

Keys == { DefaultKeyGenerator(c) : c \in Clients }

\* ------------------------------------------------------------- arithmetic

\* Math.ceil(a / b) for integers a and b > 0.
CeilDiv(a, b) == IF a >= 0 THEN (a + b - 1) \div b ELSE -((-a) \div b)

\* Math.max(a, b).
MathMax(a, b) == IF a >= b THEN a ELSE b

\* ---------------------------------------------------------------- policies

\* RateLimitOptions: the fields the check reads.
Policy(w, m, msg) == [windowMs |-> w, max |-> m, message |-> msg]

\* The policies a single limiter is checked for.
PolicySet ==
    { Policy(w, m, "Rate limit exceeded") : w \in {1000, 1500}, m \in {1, 2} }

\* The tier lists a tiered limiter is checked for: a per-second tier with a
\* per-minute tier, and two tiers of max 1.
SecondMinuteTiers ==
    << Policy(1000, 2, "per second"), Policy(60000, 5, "per minute") >>

TierConfigs ==
    { SecondMinuteTiers,
      << Policy(1000, 1, "short"), Policy(2000, 1, "long") >> }

\* The interval of the sweep timer.
SweepIntervalMs == 10 * 60 * 1000

VARIABLES
    now,        \* Date.now()
    sweepDue,   \* the time at which the sweep timer fires next (-1: the
                \* timer's phase has not been observed yet)
    limiters,   \* the limiters built by rateLimit: a sequence of policies
    store,      \* the counter store: key -> [count, resetTime]
    pc,         \* per request slot: where its handler is
    rq,         \* per request slot: the request and the handler's locals
    issued,     \* the number of requests issued so far
    gwin,       \* per limiter and key: the window as an observer counts it
    unswept,    \* the store as it would be had no sweep ever run
    call,       \* the last call of a helper: its arguments and its result
    users,      \* the user table: email -> the row's password
    mail        \* the emails handed to sendEmail so far

vars ==
    <<now, sweepDue, limiters, store, pc, rq, issued, gwin, unswept, call,
      users, mail>>

\* ------------------------------------------------------------------ store

\* The store holds an entry for the key (store[key] is not undefined).
HasEntry(st, key) == key \in DOMAIN st

\* Variants: an entry that never expires; the boundary taken as live; the
\* comparison the wrong way round.
IsExpiredOnlyAbsent(st, key, t) == ~HasEntry(st, key)
IsExpiredStrict(st, key, t) == ~HasEntry(st, key) \/ st[key].resetTime < t
IsExpiredFlipped(st, key, t) == ~HasEntry(st, key) \/ st[key].resetTime >= t

\* !rateLimitData || rateLimitData.resetTime <= now
IsExpired(st, key, t) == ~HasEntry(st, key) \/ st[key].resetTime <= t

\* { count: 0, resetTime } with resetTime = now + windowMs
FreshEntry(t, windowMs) == [count |-> 0, resetTime |-> t + windowMs]

\* rateLimitData.count++
Incremented(e) == [e EXCEPT !.count = @ + 1]

\* Variant: one entry object shared by every key of the store.
StorePutShared(st, key, e) == [k \in DOMAIN st \cup {key} |-> e]

\* store[key] = rateLimitData; the entry is then mutated in place.
StorePut(st, key, e) == (key :> e) @@ st

\* Variant: the remaining count not clamped at 0.
RemainingUnclamped(max, count) == max - count

\* Math.max(0, max - rateLimitData.count)
Remaining(max, count) == MathMax(0, max - count)

\* Variant: the seconds rounded down.
RetryAfterFloor(e, t) == (e.resetTime - t) \div 1000

\* Math.ceil((rateLimitData.resetTime - now) / 1000)
RetryAfter(e, t) == CeilDiv(e.resetTime - t, 1000)

\* Variant: the max-th request already denied.
ExceedsFromMax(e, max) == e.count >= max

\* rateLimitData.count > max
Exceeds(e, max) == e.count > max

\* new RateLimitError(message, retryAfter, limit, remaining)
RateLimitError(message, retryAfter, limit, remaining) ==
    [message |-> message, retryAfter |-> retryAfter,
     limit |-> limit, remaining |-> remaining]

\* Variant: the constructor's arguments in the wrong order.
ThrownErrorSwapped(p, retryAfter) ==
    RateLimitError(p.message, p.max, retryAfter, 0)

\* throw new RateLimitError(message, retryAfter, max, 0)
ThrownError(p, retryAfter) == RateLimitError(p.message, retryAfter, p.max, 0)

NoError == RateLimitError("", 0, 0, 0)
NoneEntry == [count |-> 0, resetTime |-> 0]

\* Variant: a denied request is not counted.
RateLimitCheckSkipDenied(st, key, t, p) ==
    LET data == IF IsExpired(st, key, t) THEN FreshEntry(t, p.windowMs)
                ELSE st[key]
        post == Incremented(data)
        retryAfter == RetryAfter(post, t)
        thrown == Exceeds(post, p.max)
    IN  [store |-> IF thrown THEN StorePut(st, key, data)
                   ELSE StorePut(st, key, post),
         thrown |-> thrown,
         err |-> IF thrown THEN ThrownError(p, retryAfter) ELSE NoError,
         remaining |-> Remaining(p.max, post.count),
         retryAfter |-> retryAfter]

\* One call of the function returned by rateLimit(p), for a request whose
\* key is `key`, at time t: the store after it and what it returns.
RateLimitCheck(st, key, t, p) ==
    LET data == IF IsExpired(st, key, t) THEN FreshEntry(t, p.windowMs)
                ELSE st[key]
        post == Incremented(data)
        remaining == Remaining(p.max, post.count)
        retryAfter == RetryAfter(post, t)
        thrown == Exceeds(post, p.max)
    IN  [store |-> StorePut(st, key, post),
         thrown |-> thrown,
         err |-> IF thrown THEN ThrownError(p, retryAfter) ELSE NoError,
         remaining |-> remaining,
         retryAfter |-> retryAfter]

\* Variant: the callback deletes nothing.
SweptNone(st, t) == st

\* Variants: the entries at resetTime = now are kept; every entry is deleted.
SweptStrict(st, t) ==
    [k \in {x \in DOMAIN st : ~(st[x].resetTime < t)} |-> st[k]]
SweptAll(st, t) == [k \in {} |-> NoneEntry]

\* The sweep: every entry with resetTime <= now is deleted.
Swept(st, t) ==
    [k \in {x \in DOMAIN st : ~(st[x].resetTime <= t)} |-> st[k]]

\* --------------------------------------------------------------- observer

\* The window of limiter i for a key as an outside observer counts it: it
\* opens with the first check that falls into no open window and lasts
\* windowMs; n checks fell into it, ok of them returned normally.
NoWindow == [start |-> -1, n |-> 0, ok |-> 0]

Observed(g, t, windowMs, thrown) ==
    LET open == g.start # -1 /\ t < g.start + windowMs
        ok == IF thrown THEN 0 ELSE 1
    IN  IF open THEN [start |-> g.start, n |-> g.n + 1, ok |-> g.ok + ok]
        ELSE [start |-> t, n |-> 1, ok |-> ok]

\* What a caller can see of a check's result.
Visible(out) == <<out.thrown, out.err, out.remaining>>

\* What is recorded of one check: the limiter, the key, the time, the entry
\* before (had, pre) and after (post), the outcome and the observer's count.
\* ref is the same check made on the store no sweep has touched.
CheckRecord(i, key, t, st, out, g, ref) ==
    [tier |-> i, key |-> key, at |-> t,
     had |-> HasEntry(st, key),
     pre |-> IF HasEntry(st, key) THEN st[key] ELSE NoneEntry,
     post |-> out.store[key],
     thrown |-> out.thrown, err |-> out.err,
     remaining |-> out.remaining,
     seq |-> g.n,
     unswept |-> Visible(ref)]

\* No helper has been called.
NoCall == [op |-> "none"]

\* A handler's locals: the checks made for its request, the errors array
\* of the tiered limiter, and how the limiter's promise settled (thrown,
\* with the error and the tier that raised it).
IdleRq == [checks |-> <<>>, errors |-> <<>>,
           thrown |-> FALSE, err |-> NoError, from |-> 0]

\* ------------------------------------------------------------------- init

\* The user table at the start: one account.
InitialUsers == [e \in {"u@x"} |-> "old-password"]

InitCommon ==
    /\ now = 0
    /\ sweepDue = -1
    /\ store = [k \in {} |-> NoneEntry]
    /\ pc = [r \in Requests |-> "idle"]
    /\ rq = [r \in Requests |-> IdleRq]
    /\ issued = 0
    /\ unswept = [k \in {} |-> NoneEntry]
    /\ users = InitialUsers
    /\ mail = {}

Init ==
    /\ InitCommon
    /\ limiters \in { <<p>> : p \in PolicySet }
    /\ gwin = [i \in {1} |-> [k \in Keys |-> NoWindow]]
    /\ call = NoCall

\* ---------------------------------------------------------------- actions

\* Time passes.
ClockTick(horizon) ==
    /\ now + TickMs <= horizon
    /\ now' = now + TickMs
    /\ UNCHANGED <<sweepDue, limiters, store, pc, rq, issued, gwin, unswept, call,
          users, mail>>

Tick == ClockTick(MaxTime)

\* The setInterval callback.  The timer runs since the module was loaded,
\* at a phase unknown to the requests: its first firing may come at any
\* time, every later one SweepIntervalMs after the one before.
Sweep ==
    /\ sweepDue = -1 \/ now >= sweepDue
    /\ store' = Swept(store, now)
    /\ sweepDue' = now + SweepIntervalMs
    /\ UNCHANGED <<now, limiters, pc, rq, issued, gwin, unswept, call,
          users, mail>>

FreeSlot(r) ==
    pc[r] = "idle" /\ \A q \in Requests : q < r => pc[q] # "idle"

\* A handler starts for a request of client c and calls the limiter: the
\* limiter's body runs to its end before the handler's await suspends.
Call(r, c) ==
    LET key == DefaultKeyGenerator(c)
        p == limiters[1]
        out == RateLimitCheck(store, key, now, p)
        ref == RateLimitCheck(unswept, key, now, p)
        g == Observed(gwin[1][key], now, p.windowMs, out.thrown)
    IN  /\ FreeSlot(r)
        /\ issued < MaxRequests
        /\ store' = out.store
        /\ unswept' = ref.store
        /\ gwin' = [gwin EXCEPT ![1][key] = g]
        /\ issued' = issued + 1
        /\ rq' = [rq EXCEPT ![r] =
                    [checks |-> <<CheckRecord(1, key, now, store, out, g, ref)>>,
                     errors |-> <<>>,
                     thrown |-> out.thrown, err |-> out.err,
                     from |-> IF out.thrown THEN 1 ELSE 0]]
        /\ pc' = [pc EXCEPT ![r] = "awaiting"]
        /\ UNCHANGED <<now, sweepDue, limiters, call, users, mail>>

\* The handler resumes after the await and runs to its response.
Resume(r) ==
    /\ pc[r] = "awaiting"
    /\ pc' = [pc EXCEPT ![r] = "idle"]
    /\ rq' = [rq EXCEPT ![r] = IdleRq]
    /\ UNCHANGED <<now, sweepDue, limiters, store, issued, gwin, unswept, call,
          users, mail>>

Next ==
    \/ \E r \in Requests, c \in Clients : Call(r, c)
    \/ \E r \in Requests : Resume(r)
    \/ Tick
    \/ Sweep

Spec == Init /\ [][Next]_vars

\* --------------------------------------------------------- tiered limiter

\* The clients of the tiered limiter: the requests of one bucket.
TieredClients ==
    { c \in Clients : DefaultKeyGenerator(c) = KeyPrefix \o <<"a">> }

\* const rateLimiters = tiers.map((tier) => rateLimit(tier))
InitTiered ==
    /\ InitCommon
    /\ limiters \in TierConfigs
    /\ gwin = [i \in 1..2 |-> [k \in Keys |-> NoWindow]]
    /\ call = NoCall

\* catch (error) { if (error instanceof RateLimitError) errors.push(error) }
\* for the check the handler was waiting for.
Pushed(errors, check) ==
    IF check.thrown THEN Append(errors, [tier |-> check.tier, err |-> check.err])
    ELSE errors

\* Variant: the later error wins a tie.
MoreRestrictiveLate(prev, curr) ==
    IF curr.err.retryAfter >= prev.err.retryAfter THEN curr ELSE prev

\* (prev, curr) => curr.retryAfter > prev.retryAfter ? curr : prev
MoreRestrictive(prev, curr) ==
    IF curr.err.retryAfter > prev.err.retryAfter THEN curr ELSE prev

\* errors.reduce(...) without an initial value, on a non-empty array.
RECURSIVE Reduce(_, _)
Reduce(prev, rest) ==
    IF rest = <<>> THEN prev
    ELSE Reduce(MoreRestrictive(prev, Head(rest)), Tail(rest))

MostRestrictive(errors) == Reduce(Head(errors), Tail(errors))

\* One iteration's call of tier i's limiter by the handler in slot r.
TierCheck(r, i, key, errors) ==
    LET p == limiters[i]
        out == RateLimitCheck(store, key, now, p)
        ref == RateLimitCheck(unswept, key, now, p)
        g == Observed(gwin[i][key], now, p.windowMs, out.thrown)
    IN  /\ store' = out.store
        /\ unswept' = ref.store
        /\ gwin' = [gwin EXCEPT ![i][key] = g]
        /\ rq' = [rq EXCEPT ![r].checks =
                        Append(@, CheckRecord(i, key, now, store, out, g, ref)),
                             ![r].errors = errors]

\* The tiered limiter is called for a request of client c: the first
\* tier's check runs, then the loop's await suspends.
TieredCall(r, c) ==
    /\ FreeSlot(r)
    /\ issued < MaxRequests
    /\ TierCheck(r, 1, DefaultKeyGenerator(c), <<>>)
    /\ issued' = issued + 1
    /\ pc' = [pc EXCEPT ![r] = "tiers"]
    /\ UNCHANGED <<now, sweepDue, limiters, call, users, mail>>

\* Variant: the loop is left at the first tier that throws.
LoopEndsOnThrow(checks, tiers) ==
    Len(checks) = Len(tiers) \/ checks[Len(checks)].thrown

\* for (const rateLimit of rateLimiters): the loop ends after the last
\* limiter; the catch block neither breaks nor rethrows.
LoopEnds(checks, tiers) == Len(checks) = Len(tiers)

\* The loop resumes: the awaited check's error, if any, is pushed and the
\* next tier's check runs.
TieredStep(r) ==
    LET done == Len(rq[r].checks)
        last == rq[r].checks[done]
    IN  /\ pc[r] = "tiers"
        /\ ~LoopEnds(rq[r].checks, limiters)
        /\ TierCheck(r, done + 1, last.key, Pushed(rq[r].errors, last))
        /\ UNCHANGED <<now, sweepDue, limiters, pc, issued, call, users, mail>>

\* The loop resumes after the last tier: the limiter throws the most
\* restrictive error, or returns.
TieredSettle(r) ==
    LET done == Len(rq[r].checks)
        errors == Pushed(rq[r].errors, rq[r].checks[done])
    IN  /\ pc[r] = "tiers"
        /\ LoopEnds(rq[r].checks, limiters)
        /\ rq' = [rq EXCEPT ![r].errors = errors,
                             ![r].thrown = Len(errors) > 0,
                             ![r].err = IF Len(errors) > 0
                                        THEN MostRestrictive(errors).err
                                        ELSE NoError,
                             ![r].from = IF Len(errors) > 0
                                         THEN MostRestrictive(errors).tier
                                         ELSE 0]
        /\ pc' = [pc EXCEPT ![r] = "awaiting"]
        /\ UNCHANGED <<now, sweepDue, limiters, store, issued, gwin, unswept, call,
          users, mail>>

TieredTick == ClockTick(MaxTimeTiered)

NextTiered ==
    \/ \E r \in Requests, c \in TieredClients : TieredCall(r, c)
    \/ \E r \in Requests : TieredStep(r)
    \/ \E r \in Requests : TieredSettle(r)
    \/ \E r \in Requests : Resume(r)
    \/ TieredTick
    \/ Sweep

SpecTiered == InitTiered /\ [][NextTiered]_vars

\* ------------------------------------------------------ getRateLimitInfo

\* The object getRateLimitInfo(key, windowMs, max) returns at time t.
RateLimitInfo(st, key, t, windowMs, max) ==
    IF ~HasEntry(st, key) \/ st[key].resetTime <= t
    THEN [limit |-> max, remaining |-> max,
          resetTime |-> t + windowMs, retryAfter |-> 0]
    ELSE LET remaining == Remaining(max, st[key].count)
             retryAfter == CeilDiv(st[key].resetTime - t, 1000)
         IN  [limit |-> max, remaining |-> remaining,
              resetTime |-> st[key].resetTime,
              retryAfter |-> IF remaining = 0 THEN retryAfter ELSE 0]

\* Variant: a read that stores the fresh window it reports.
GetRateLimitInfoStoring(st, key, t, windowMs, max) ==
    [store |-> IF ~HasEntry(st, key) \/ st[key].resetTime <= t
               THEN StorePut(st, key, FreshEntry(t, windowMs))
               ELSE st,
     ret |-> RateLimitInfo(st, key, t, windowMs, max)]

\* One call of getRateLimitInfo: the store after it (the function writes
\* nothing) and what it returns.
GetRateLimitInfo(st, key, t, windowMs, max) ==
    [store |-> st, ret |-> RateLimitInfo(st, key, t, windowMs, max)]

\* getRateLimitInfo is called for a key with the limiter's windowMs and max.
\* Recorded with the result: the entry found, the observer's window, and
\* the result on the store no sweep has touched.
Info(k) ==
    LET p == limiters[1]
        out == GetRateLimitInfo(store, k, now, p.windowMs, p.max)
        ref == GetRateLimitInfo(unswept, k, now, p.windowMs, p.max)
        g == gwin[1][k]
    IN  /\ store' = out.store
        /\ call' = [op |-> "info", key |-> k, ret |-> out.ret,
                    had |-> HasEntry(store, k),
                    open |-> g.start # -1 /\ now < g.start + p.windowMs,
                    n |-> g.n,
                    unswept |-> ref.ret]
        /\ UNCHANGED <<now, sweepDue, limiters, pc, rq, issued, gwin, unswept,
          users, mail>>

\* Time passes; the caller of getRateLimitInfo has used its result.
InfoTick ==
    /\ now + TickMs <= MaxTime
    /\ now' = now + TickMs
    /\ call' = NoCall
    /\ UNCHANGED <<sweepDue, limiters, store, pc, rq, issued, gwin, unswept,
          users, mail>>

\* Checks by one handler at a time, sweeps and getRateLimitInfo calls.
NextInfo ==
    \/ \E c \in Clients : Call(1, c)
    \/ Resume(1)
    \/ InfoTick
    \/ Sweep
    \/ \E k \in Keys : Info(k)

SpecInfo == Init /\ [][NextInfo]_vars

\* ------------------------------------------------------------ properties

\* The checks the handlers in flight have made.
AllChecks ==
    UNION { { rq[r].checks[j] : j \in 1..Len(rq[r].checks) } : r \in Requests }

\* The handlers whose limiter call has settled.
Settled == { r \in Requests : pc[r] = "awaiting" }

PolicyOf(c) == limiters[c.tier]

\* s is d / unit rounded up to a whole number.
IsCeil(s, d, unit) == s * unit >= d /\ (s - 1) * unit < d

\* C1: of the checks a limiter makes for a key within one window, counted
\* from the check that opened the window, the first max return normally and
\* the (max+1)-th throws.
C1_MaxAllowedThenDenied ==
    \A c \in AllChecks :
        /\ c.seq <= PolicyOf(c).max => ~c.thrown
        /\ c.seq = PolicyOf(c).max + 1 => c.thrown

C1_Witness ==
    \E c \in AllChecks :
        PolicyOf(c).max = 2 /\ c.seq = 3 /\ c.thrown /\ c.post.count = 3

\* C2: with requests in flight at the same time, no increment is lost:
\* while a key's window is open its entry's count is the number of checks
\* completed in the window, and at most max of them returned normally.
C2_NoLostIncrement ==
    \A k \in Keys :
        LET g == gwin[1][k]
        IN  (g.start # -1 /\ now < g.start + limiters[1].windowMs) =>
                /\ HasEntry(store, k)
                /\ store[k].count = g.n
                /\ g.ok <= limiters[1].max

C2_Witness ==
    /\ \A r \in Requests : pc[r] = "awaiting"
    /\ \E k \in Keys :
        /\ \A r \in Requests : rq[r].checks[1].key = k
        /\ HasEntry(store, k)
        /\ store[k].count = 3
        /\ gwin[1][k].n = 3
        /\ gwin[1][k].ok = limiters[1].max

\* C6: a check that finds the key's entry with its resetTime in the past
\* starts a fresh window (count 1, resetTime now + windowMs) and returns
\* normally, whatever the count of the old window was.
C6_FreshWindowAfterReset ==
    \A c \in AllChecks :
        (c.had /\ c.pre.resetTime < c.at) =>
            /\ ~c.thrown
            /\ c.post = [count |-> 1, resetTime |-> c.at + PolicyOf(c).windowMs]

C6_Witness ==
    \E c \in AllChecks :
        /\ c.had /\ c.pre.resetTime < c.at
        /\ c.pre.count > PolicyOf(c).max
        /\ ~c.thrown

\* C7: a check at exactly now = resetTime of the stored entry starts a new
\* window instead of counting against the old one.
C7_BoundaryStartsNewWindow ==
    \A c \in AllChecks :
        (c.had /\ c.pre.resetTime = c.at) =>
            c.post = [count |-> 1, resetTime |-> c.at + PolicyOf(c).windowMs]

C7_Witness ==
    \E c \in AllChecks :
        /\ c.had /\ c.pre.resetTime = c.at
        /\ c.pre.count >= PolicyOf(c).max
        /\ ~c.thrown

\* The handler in slot r makes its check in this step.
CallStep(r) == pc[r] = "idle" /\ pc'[r] = "awaiting"

\* What a check for key k would return in store st at time t.
Outcome(st, k, t) ==
    LET out == RateLimitCheck(st, k, t, limiters[1])
    IN  <<out.thrown, out.err, out.remaining>>

\* C8: a check for one key leaves every other key's entry (its presence,
\* count and resetTime) and the outcome of that key's next check as they were.
C8_DistinctKeysIndependent ==
    [][ \A r \in Requests :
            CallStep(r) =>
                \A k \in Keys \ {rq'[r].checks[1].key} :
                    /\ HasEntry(store', k) <=> HasEntry(store, k)
                    /\ HasEntry(store, k) => store'[k] = store[k]
                    /\ Outcome(store', k, now') = Outcome(store, k, now) ]_vars

C8_Witness ==
    \E a \in Keys, b \in Keys :
        /\ a # b
        /\ HasEntry(store, a) /\ HasEntry(store, b)
        /\ store[a].count > limiters[1].max
        /\ store[a].resetTime > now
        /\ store[b].count = 1
        /\ \E c \in AllChecks :
            c.key = b /\ ~c.thrown /\ c.at > gwin[1][a].start /\ c.post = store[b]

\* C9: every RateLimitError a limiter throws carries limit = the policy's
\* max, remaining = 0 and retryAfter >= 0.
C9_ErrorFields ==
    /\ \A c \in AllChecks :
        c.thrown =>
            /\ c.err.limit = PolicyOf(c).max
            /\ c.err.remaining = 0
            /\ c.err.retryAfter >= 0
    /\ \A r \in Settled :
        rq[r].thrown =>
            /\ rq[r].err.limit = limiters[rq[r].from].max
            /\ rq[r].err.remaining = 0
            /\ rq[r].err.retryAfter >= 0

C9_Witness ==
    \E r \in Settled :
        /\ rq[r].thrown
        /\ rq[r].err.limit = 2
        /\ rq[r].err.retryAfter = 1
        /\ rq[r].checks[1].post.count = 3

\* C10: the retryAfter of a violation is (resetTime - now) / 1000 rounded
\* up, for the key's entry at the time of the check, and is greater than 0.
C10_RetryAfterCeilPositive ==
    \A c \in AllChecks :
        c.thrown =>
            /\ c.err.retryAfter > 0
            /\ IsCeil(c.err.retryAfter, c.post.resetTime - c.at, 1000)

C10_Witness ==
    \E c \in AllChecks :
        /\ c.thrown
        /\ (c.post.resetTime - c.at) % 1000 # 0
        /\ c.post.resetTime - c.at < 1000

\* ------------------------------------------- properties, tiered limiter

\* C3: with tiers (1000 ms, max 2) and (60000 ms, max 5), of a client's
\* requests within one second the first two are allowed and the third is
\* denied by the one-second tier.
C3_TwoAllowedThirdDenied ==
    limiters = SecondMinuteTiers =>
        \A r \in Settled :
            LET first == rq[r].checks[1]
            IN  /\ first.seq <= 2 => ~rq[r].thrown
                /\ first.seq = 3 =>
                     /\ rq[r].thrown
                     /\ rq[r].from = 1
                     /\ rq[r].err = first.err

\* C4: each tier counts a client's requests in an entry and a window of its
\* own: the count a tier's check leaves is the number of requests that fell
\* into that tier's window, and the tier denies only above its own max.
C4_TiersIndependent ==
    \A c \in AllChecks :
        /\ c.post.count = c.seq
        /\ c.thrown => c.seq > PolicyOf(c).max

\* The checks of the handler in slot r that were denied.
Denied(r) ==
    { j \in 1..Len(rq[r].checks) : rq[r].checks[j].thrown }

\* C5: a settled tiered call has thrown exactly when a tier denied; the
\* error thrown is the one of the denying tier with the largest retryAfter,
\* the earliest such tier on a tie.
C5_MostRestrictiveThrown ==
    \A r \in Settled :
        /\ rq[r].thrown <=> Denied(r) # {}
        /\ rq[r].thrown =>
            /\ rq[r].from \in Denied(r)
            /\ rq[r].err = rq[r].checks[rq[r].from].err
            /\ \A j \in Denied(r) :
                /\ rq[r].checks[j].err.retryAfter <= rq[r].err.retryAfter
                /\ rq[r].checks[j].err.retryAfter = rq[r].err.retryAfter
                      => rq[r].from <= j

C5_Witness ==
    \E r \in Settled :
        /\ rq[r].thrown
        /\ Denied(r) = {1, 2}
        /\ rq[r].from = 2
        /\ rq[r].checks[1].err.retryAfter < rq[r].checks[2].err.retryAfter

\* ------------------------------------------------------ createIPRateLimit

\* The values of the optional parameter wasSuccessful.
Flags == {"true", "false", "undefined"}

\* options of createIPRateLimit: a policy with the two skip options, an
\* option left out being falsy like false.
IPOptions(p, skipSuccessful, skipFailed) ==
    [windowMs |-> p.windowMs, max |-> p.max, message |-> p.message,
     skipSuccessfulRequests |-> skipSuccessful,
     skipFailedRequests |-> skipFailed]

IPOptionsSet ==
    { IPOptions(Policy(1000, m, "Rate limit exceeded"), ss, sf) :
        m \in {1, 2}, ss \in BOOLEAN, sf \in BOOLEAN }

InitIP ==
    /\ InitCommon
    /\ limiters \in { <<o>> : o \in IPOptionsSet }
    /\ gwin = [i \in {1} |-> [k \in Keys |-> NoWindow]]
    /\ call = NoCall

\* Variant: the two options taken for each other.
SkipsSwapped(options, wasSuccessful) ==
    \/ options.skipSuccessfulRequests /\ wasSuccessful = "false"
    \/ options.skipFailedRequests /\ wasSuccessful = "true"

\* if (options.skipSuccessfulRequests && wasSuccessful) return;
\* if (options.skipFailedRequests && wasSuccessful === false) return;
Skips(options, wasSuccessful) ==
    \/ options.skipSuccessfulRequests /\ wasSuccessful = "true"
    \/ options.skipFailedRequests /\ wasSuccessful = "false"

\* A handler calls the wrapper for a request of client c with the flag
\* wasSuccessful: the wrapper returns at once, or returns the promise of
\* baseRateLimit(request).
IPCall(r, c, wasSuccessful) ==
    LET key == DefaultKeyGenerator(c)
        p == limiters[1]
        out == RateLimitCheck(store, key, now, p)
        ref == RateLimitCheck(unswept, key, now, p)
        g == Observed(gwin[1][key], now, p.windowMs, out.thrown)
    IN  /\ FreeSlot(r)
        /\ issued < MaxRequests
        /\ issued' = issued + 1
        /\ pc' = [pc EXCEPT ![r] = "awaiting"]
        /\ IF Skips(p, wasSuccessful)
           THEN /\ rq' = [rq EXCEPT ![r] = IdleRq]
                /\ call' = [op |-> "ip", key |-> key, flag |-> wasSuccessful,
                            thrown |-> FALSE, err |-> NoError]
                /\ UNCHANGED <<store, unswept, gwin>>
           ELSE /\ store' = out.store
                /\ unswept' = ref.store
                /\ gwin' = [gwin EXCEPT ![1][key] = g]
                /\ rq' = [rq EXCEPT ![r] =
                      [checks |-> <<CheckRecord(1, key, now, store, out, g, ref)>>,
                       errors |-> <<>>,
                       thrown |-> out.thrown, err |-> out.err,
                       from |-> IF out.thrown THEN 1 ELSE 0]]
                /\ call' = [op |-> "ip", key |-> key, flag |-> wasSuccessful,
                            thrown |-> out.thrown, err |-> out.err]
        /\ UNCHANGED <<now, sweepDue, limiters, users, mail>>

\* The handler resumes after the wrapper's promise has settled.
IPResume(r) ==
    /\ pc[r] = "awaiting"
    /\ pc' = [pc EXCEPT ![r] = "idle"]
    /\ rq' = [rq EXCEPT ![r] = IdleRq]
    /\ call' = NoCall
    /\ UNCHANGED <<now, sweepDue, limiters, store, issued, gwin, unswept,
          users, mail>>

NextIP ==
    \/ \E c \in Clients, f \in Flags : IPCall(1, c, f)
    \/ IPResume(1)
    \/ InfoTick
    \/ Sweep

SpecIP == InitIP /\ [][NextIP]_vars

\* A step in which the wrapper of createIPRateLimit is called.
IPStep == issued' = issued + 1 /\ call'.op = "ip"

\* C13: for a wrapper with skipSuccessfulRequests: true (and no
\* skipFailedRequests), a call flagged successful leaves the store as it
\* was and does not throw; every other call changes the store and settles
\* exactly as a check of the base limiter does, so that only those calls
\* are counted.
C13_OnlyFailuresCounted ==
    [][ (IPStep /\ limiters[1].skipSuccessfulRequests
                /\ ~limiters[1].skipFailedRequests) =>
            LET base == RateLimitCheck(store, call'.key, now, limiters[1])
            IN  IF call'.flag = "true"
                THEN /\ store' = store
                     /\ ~call'.thrown
                ELSE /\ store' = base.store
                     /\ store'[call'.key].count >= 1
                     /\ call'.thrown = base.thrown
                     /\ call'.err = base.err ]_vars

\* A call flagged successful has been let through although the entry of
\* its key, filled by failure-flagged calls, is over the limit.
C13_Witness ==
    /\ limiters[1].skipSuccessfulRequests /\ ~limiters[1].skipFailedRequests
    /\ call.op = "ip" /\ call.flag = "true" /\ ~call.thrown
    /\ HasEntry(store, call.key)
    /\ store[call.key].resetTime > now
    /\ store[call.key].count > limiters[1].max

\* C20: a settled tiered call has run the check of every tier, in list
\* order, also after an earlier tier denied, and each check has counted
\* the request in the entry it found.
C20_AllTiersChecked ==
    \A r \in Settled :
        /\ Len(rq[r].checks) = Len(limiters)
        /\ \A j \in 1..Len(rq[r].checks) :
            LET c == rq[r].checks[j]
            IN  /\ c.tier = j
                /\ c.post.count =
                      IF c.had /\ c.pre.resetTime > c.at
                      THEN c.pre.count + 1 ELSE 1
                /\ j > 1 => c.at >= rq[r].checks[j - 1].at

C20_Witness ==
    \E r \in Settled :
        /\ rq[r].checks[1].thrown
        /\ Len(rq[r].checks) = 2
        /\ rq[r].checks[2].tier = 2
        /\ rq[r].checks[2].post.count = rq[r].checks[1].post.count + 1

\* ------------------------------------- properties, store and inspection

\* C11: within one window, after the n-th successful check the remaining
\* value, as the check computes it and as getRateLimitInfo reports it with
\* the same max, is max - n; remaining is never negative.
C11_RemainingAfterNth ==
    /\ \A c \in AllChecks :
        /\ c.remaining >= 0
        /\ ~c.thrown => c.remaining = PolicyOf(c).max - c.seq
    /\ call.op = "info" =>
        /\ call.ret.remaining >= 0
        /\ (call.open /\ call.n <= limiters[1].max) =>
              call.ret.remaining = limiters[1].max - call.n

C11_Witness ==
    /\ call.op = "info"
    /\ limiters[1].max = 2
    /\ call.open /\ call.n = 1 /\ call.ret.remaining = 1
    /\ \E c \in AllChecks :
        c.key = call.key /\ ~c.thrown /\ c.seq = 1 /\ c.remaining = 1

\* A step in which getRateLimitInfo is called and nothing else happens.
InfoStep ==
    call'.op = "info" /\ pc' = pc /\ now' = now /\ sweepDue' = sweepDue

\* C12: a call of getRateLimitInfo leaves the store as it was, and with it
\* the result of every later check and getRateLimitInfo call.
C12_InfoReadOnly ==
    [][ InfoStep =>
            /\ store' = store
            /\ \A k \in Keys :
                /\ Outcome(store', k, now') = Outcome(store, k, now)
                /\ RateLimitInfo(store', k, now', limiters[1].windowMs,
                                 limiters[1].max)
                     = RateLimitInfo(store, k, now, limiters[1].windowMs,
                                     limiters[1].max) ]_vars

C12_Witness ==
    /\ call.op = "info"
    /\ call.had /\ ~call.open
    /\ HasEntry(store, call.key)
    /\ store[call.key].resetTime <= now
    /\ call.ret.remaining = limiters[1].max

\* A step in which the sweep runs.
SweepStep == sweepDue' # sweepDue

\* C14: a sweep at time now removes exactly the entries with
\* resetTime <= now and leaves every other entry as it was.
C14_SweepRemovesExpiredOnly ==
    [][ SweepStep =>
            /\ DOMAIN store' = { k \in DOMAIN store : store[k].resetTime > now }
            /\ \A k \in DOMAIN store' : store'[k] = store[k] ]_vars

C14_Witness ==
    /\ sweepDue = now + SweepIntervalMs
    /\ \E k \in DOMAIN store : store[k].resetTime > now
    /\ \E k \in DOMAIN unswept \ DOMAIN store : unswept[k].resetTime = now

\* C15: sweeps cannot be observed: every check's outcome and every
\* getRateLimitInfo result is the one the same calls give on the store
\* that no sweep has touched.
C15_SweepUnobservable ==
    /\ \A c \in AllChecks : c.unswept = <<c.thrown, c.err, c.remaining>>
    /\ call.op = "info" => call.ret = call.unswept

C15_Witness ==
    /\ call.op = "info"
    /\ ~call.had /\ HasEntry(unswept, call.key)
    /\ \E c \in AllChecks :
        ~c.had /\ issued >= 2 /\ DOMAIN unswept = {c.key}

\* C16: a key has one entry at most; while the entry's window is current
\* the entry stays and its count never decreases; the count goes back to 1
\* only when a check starts a new window, over an expired entry or after
\* the entry was swept.
C16_CountMonotonicInWindow ==
    [][ \A k \in Keys :
            /\ (HasEntry(store, k) /\ store[k].resetTime > now) =>
                  /\ HasEntry(store', k)
                  /\ store'[k].resetTime = store[k].resetTime
                  /\ store'[k].count >= store[k].count
            /\ (HasEntry(store, k) /\ HasEntry(store', k)
                  /\ store'[k].count < store[k].count) =>
                  /\ store[k].resetTime <= now
                  /\ store'[k] = [count |-> 1,
                                  resetTime |-> now + limiters[1].windowMs]
            /\ (~HasEntry(store, k) /\ HasEntry(store', k)) =>
                  store'[k] = [count |-> 1,
                               resetTime |-> now + limiters[1].windowMs] ]_vars

C16_Witness ==
    \E c \in AllChecks :
        /\ c.had /\ c.pre.resetTime <= c.at
        /\ c.pre.count >= 2
        /\ c.post.count = 1

\* The state of a key's entry in the state machine of the limiter.
Phase(st, k, max) ==
    IF ~HasEntry(st, k) THEN "NO_ENTRY"
    ELSE IF st[k].count < max THEN "ACTIVE_BELOW"
    ELSE IF st[k].count = max THEN "ACTIVE_AT"
    ELSE "EXCEEDED"

\* C17 as stated: per key the only transitions are those of the chain
\* NO_ENTRY -> ACTIVE(count<max) -> ACTIVE(count==max) -> EXCEEDED ->
\* NO_ENTRY, a new window leading on from NO_ENTRY in the same check.
C17_ChainOnly ==
    [][ \A k \in Keys :
            LET a == Phase(store, k, limiters[1].max)
                b == Phase(store', k, limiters[1].max)
            IN  \/ a = b
                \/ <<a, b>> \in { <<"NO_ENTRY", "ACTIVE_BELOW">>,
                                  <<"ACTIVE_BELOW", "ACTIVE_AT">>,
                                  <<"ACTIVE_AT", "EXCEEDED">>,
                                  <<"EXCEEDED", "NO_ENTRY">>,
                                  <<"EXCEEDED", "ACTIVE_BELOW">> } ]_vars

\* C17, amended: a check on no entry or on an expired entry, whatever its
\* state, leads to the state of count 1 (ACTIVE(count==max) when max = 1);
\* a check on a live entry moves one step along the chain at most; an entry
\* goes to NO_ENTRY only once its resetTime has passed, from any state.
C17_Transitions ==
    [][ \A k \in Keys :
            LET max == limiters[1].max
                a == Phase(store, k, max)
                b == Phase(store', k, max)
                expired == HasEntry(store, k) /\ store[k].resetTime <= now
                first == IF max = 1 THEN "ACTIVE_AT" ELSE "ACTIVE_BELOW"
                written == ~HasEntry(store, k) \/ store'[k] # store[k]
            IN  /\ (a # "NO_ENTRY" /\ b = "NO_ENTRY") => expired
                /\ (b # "NO_ENTRY" /\ (a = "NO_ENTRY" \/ expired) /\ written) =>
                      b = first /\ store'[k].count = 1
                /\ (a # "NO_ENTRY" /\ b # "NO_ENTRY" /\ ~expired /\ a # b) =>
                      <<a, b>> \in { <<"ACTIVE_BELOW", "ACTIVE_AT">>,
                                     <<"ACTIVE_AT", "EXCEEDED">> } ]_vars

C17_Witness ==
    \E c \in AllChecks :
        /\ PolicyOf(c).max = 1
        /\ ~c.had
        /\ c.post.count = 1
        /\ Phase(store, c.key, 1) = "ACTIVE_AT"

\* ---------------------------------------------------- defaultKeyGenerator

\* The longest header value the key generator is checked for.
MaxHeaderLen == 3

\* The header values: texts of letters, spaces and commas.
HeaderChars == {"a", Space, Comma}

HeaderTexts ==
    UNION { [1..n -> HeaderChars] : n \in 0..MaxHeaderLen }

\* request.headers.get(name): null for a header that is not there.
HeaderInputs ==
    { [forwarded |-> f, realIP |-> i] :
        f \in HeaderTexts \cup {Null},
        i \in {Null, <<>>, <<"b">>} }

\* The key of a request with the headers h is computed.
GenerateKey(h) ==
    /\ call' = [op |-> "key", headers |-> h, ret |-> DefaultKeyGenerator(h)]
    /\ UNCHANGED <<now, sweepDue, limiters, store, pc, rq, issued, gwin, unswept,
          users, mail>>

NextKey == \E h \in HeaderInputs : GenerateKey(h)

SpecKey == Init /\ [][NextKey]_vars

\* e is the first comma-separated entry of the text s.
IsFirstEntry(e, s) ==
    /\ Len(e) <= Len(s)
    /\ e = SubSeq(s, 1, Len(e))
    /\ \A i \in 1..Len(e) : e[i] # Comma
    /\ Len(e) < Len(s) => s[Len(e) + 1] = Comma

\* t is the text e without the spaces at its two ends.
IsTrimOf(t, e) ==
    /\ t # <<>> => t[1] # Space /\ t[Len(t)] # Space
    /\ \E i \in 0..Len(e) :
        /\ i + Len(t) <= Len(e)
        /\ t = SubSeq(e, i + 1, i + Len(t))
        /\ \A j \in 1..Len(e) : (j <= i \/ j > i + Len(t)) => e[j] = Space

\* The trimmed first entry of x-forwarded-for is the text t.
ForwardedIs(h, t) ==
    /\ h.forwarded # Null
    /\ \E n \in 0..Len(h.forwarded) :
        LET e == SubSeq(h.forwarded, 1, n)
        IN  IsFirstEntry(e, h.forwarded) /\ IsTrimOf(t, e)

\* C18 as stated: the key is the prefix followed by the trimmed first
\* entry of x-forwarded-for; by x-real-ip if that header is absent; by
\* "unknown" if x-real-ip is absent too.
C18_KeyAsStated ==
    call.op = "key" =>
        LET h == call.headers
        IN  /\ h.forwarded # Null =>
                \E t \in HeaderTexts :
                    ForwardedIs(h, t) /\ call.ret = KeyPrefix \o t
            /\ (h.forwarded = Null /\ h.realIP # Null) =>
                call.ret = KeyPrefix \o h.realIP
            /\ (h.forwarded = Null /\ h.realIP = Null) =>
                call.ret = KeyPrefix \o Unknown

\* C18, amended: the key is the prefix followed by the trimmed first entry
\* of x-forwarded-for if that entry is not empty; otherwise by x-real-ip if
\* that header is there and not empty; otherwise by "unknown", so that all
\* requests without a usable identity header share one bucket.
C18_DefaultKey ==
    call.op = "key" =>
        LET h == call.headers
            usable == \E t \in HeaderTexts : t # <<>> /\ ForwardedIs(h, t)
            real == h.realIP # Null /\ h.realIP # <<>>
        IN  /\ usable =>
                \E t \in HeaderTexts :
                    t # <<>> /\ ForwardedIs(h, t) /\ call.ret = KeyPrefix \o t
            /\ (~usable /\ real) => call.ret = KeyPrefix \o h.realIP
            /\ (~usable /\ ~real) => call.ret = KeyPrefix \o Unknown

C18_Witness ==
    /\ call.op = "key"
    /\ call.headers.forwarded = <<Space, Comma, "a">>
    /\ call.headers.realIP = <<"b">>
    /\ call.ret = KeyPrefix \o <<"b">>

\* ---------------------------------------------------- addRateLimitHeaders

DigitChars == <<"0", "1", "2", "3", "4", "5", "6", "7", "8", "9">>

\* Number.prototype.toString() of an integer: its decimal digits, after a
\* minus sign when it is negative.
RECURSIVE Digits(_)
Digits(n) ==
    IF n < 10 THEN <<DigitChars[n + 1]>>
    ELSE Digits(n \div 10) \o <<DigitChars[(n % 10) + 1]>>

NumberToString(n) == IF n < 0 THEN <<"-">> \o Digits(-n) ELSE Digits(n)

\* Headers.set(name, value): the header's value is replaced or added.
HeadersSet(h, name, value) == (name :> value) @@ h

\* An optional argument is <<>> when left out and <<v>> when given.
Omitted == <<>>

\* Variant: any retryAfter that is given is written.
TruthyGiven(arg) == arg # Omitted

\* if (retryAfter): undefined and 0 are falsy, every other number is not.
Truthy(arg) == arg # Omitted /\ arg[1] # 0

\* The body of addRateLimitHeaders on the collection h.
AddRateLimitHeaders(h, limit, remaining, resetTime, retryAfter) ==
    LET h1 == HeadersSet(h, "X-RateLimit-Limit", NumberToString(limit))
        h2 == HeadersSet(h1, "X-RateLimit-Remaining", NumberToString(remaining))
        h3 == HeadersSet(h2, "X-RateLimit-Reset",
                         NumberToString(CeilDiv(resetTime, 1000)))
    IN  IF Truthy(retryAfter)
        THEN HeadersSet(h3, "Retry-After", NumberToString(retryAfter[1]))
        ELSE h3

\* The collections a caller passes: a new one, one of a response that has
\* a header already, one that carries an older Retry-After.
HeaderCollections ==
    { [n \in {} |-> <<>>],
      [n \in {"Content-Type"} |-> <<"j">>],
      [n \in {"Retry-After"} |-> <<"9">>] }

\* The values retryAfter takes at the callers: left out, the retryAfter of
\* getRateLimitInfo (0 when not limited) or of a RateLimitError.
RetryAfterInputs == { Omitted, <<0>>, <<1>>, <<60>> }

\* addRateLimitHeaders is called on the collection at ref, one of two
\* collections of the heap, and returns its first argument.  The function
\* keeps no state between calls: one call is followed.
AddHeaders(heap, ref, limit, remaining, resetTime, retryAfter) ==
    /\ call = NoCall
    /\ call' = [op |-> "headers",
                before |-> heap, arg |-> ref,
                limit |-> limit, remaining |-> remaining,
                resetTime |-> resetTime, retryAfter |-> retryAfter,
                after |-> [heap EXCEPT ![ref] =
                    AddRateLimitHeaders(heap[ref], limit, remaining,
                                        resetTime, retryAfter)],
                ret |-> ref]
    /\ UNCHANGED <<now, sweepDue, limiters, store, pc, rq, issued, gwin, unswept,
          users, mail>>

NextHeaders ==
    \E h1 \in HeaderCollections, h2 \in HeaderCollections, ref \in {1, 2},
       limit \in {2, 60}, remaining \in {0, 12},
       resetTime \in {0, 1, 1000, 59001, 60000},
       retryAfter \in RetryAfterInputs :
        AddHeaders(<<h1, h2>>, ref, limit, remaining, resetTime, retryAfter)

SpecHeaders == Init /\ [][NextHeaders]_vars

\* The number a text of decimal digits stands for, -1 for any other text.
RECURSIVE ParseDigits(_)
ParseDigits(s) ==
    IF s = <<>> THEN -1
    ELSE LET last == s[Len(s)]
             d == IF \E i \in 1..10 : DigitChars[i] = last
                  THEN (CHOOSE i \in 1..10 : DigitChars[i] = last) - 1
                  ELSE -1
             rest == IF Len(s) = 1 THEN 0
                     ELSE ParseDigits(SubSeq(s, 1, Len(s) - 1))
         IN  IF d = -1 \/ rest = -1 THEN -1 ELSE rest * 10 + d

HasHeader(h, name) == name \in DOMAIN h

LiveCall(r, c) == now <= MaxTime /\ Call(r, c)

\* Time passes until the sweep timer is due again.  The timer is followed
\* for one interval after the last request.
AwaitTimer ==
    /\ sweepDue # -1
    /\ now < sweepDue
    /\ sweepDue <= MaxTime + SweepIntervalMs
    /\ now' = sweepDue
    /\ UNCHANGED <<sweepDue, limiters, store, pc, rq, issued, gwin, unswept, call,
          users, mail>>

NextLive ==
    \/ \E c \in Clients : LiveCall(1, c)
    \/ Resume(1)
    \/ Tick
    \/ AwaitTimer
    \/ Sweep

\* Time goes on and the timer's callback runs when it is due, whatever the
\* requests do.
SpecLive ==
    /\ Init
    /\ [][NextLive]_vars
    /\ WF_vars(Tick)
    /\ WF_vars(AwaitTimer)
    /\ WF_vars(Sweep)

\* C21: once the requests for a key have stopped, its entry is in the end
\* removed from the store and stays removed; an entry is removed only by a
\* firing of the sweep after its resetTime has passed, and the sweep fires
\* whether or not requests arrive.
C21_EntryEventuallySwept ==
    /\ \A k \in Keys : <>[](~HasEntry(store, k))
    /\ [][ \A k \in Keys :
              (HasEntry(store, k) /\ ~HasEntry(store', k)) =>
                  /\ SweepStep
                  /\ store[k].resetTime <= now
                  /\ pc' = pc /\ issued' = issued ]_vars

\* The entries of two keys, left behind by requests that have stopped, are
\* gone after the timer's next firing.
C21_Witness ==
    /\ now > MaxTime
    /\ sweepDue = now + SweepIntervalMs
    /\ Cardinality(DOMAIN unswept) = 2
    /\ DOMAIN store = {}
    /\ \A k \in DOMAIN unswept : unswept[k].resetTime > MaxTime

\* ----------------------------------------------------- generateAIResponse

\* The default of the parameter maxRetries.
DefaultMaxRetries == 3

\* The user messages: texts of letters, spaces and angle brackets.
MessageTexts ==
    UNION { [1..n -> {"a", Space, "<"}] : n \in 0..2 }

\* .replace(/[<>]/g, ""): the angle brackets are taken out.
RECURSIVE WithoutBrackets(_)
WithoutBrackets(s) ==
    IF s = <<>> THEN <<>>
    ELSE IF Head(s) \in {"<", ">"} THEN WithoutBrackets(Tail(s))
    ELSE <<Head(s)>> \o WithoutBrackets(Tail(s))

\* sanitizeUserInput: trim, then the replacements.  The texts above are
\* shorter than the slice and hold no "javascript:" or "data:".
SanitizeUserInput(input) == WithoutBrackets(Trim(input))

\* new AIAPIError(message, statusCode, retryable)
AIAPIError(message, statusCode, retryable) ==
    [name |-> "AIAPIError", message |-> message,
     statusCode |-> statusCode, retryable |-> retryable]

\* The phrases the catch block looks for in an error's message.
Phrases ==
    {"rate limit", "insufficient credits", "quota", "model not found",
     "timeout"}

\* What one call of generateText does: it returns a text, returns an empty
\* text, or throws an Error whose message holds the given phrases.
AIOutcomes ==
    {[kind |-> "text"], [kind |-> "empty"]}
        \cup { [kind |-> "error", message |-> m] :
                 m \in {{}} \cup { {x} : x \in Phrases }
                        \cup { {"timeout", "quota"}, {"rate limit", "quota"} } }

\* error.message.includes(phrase)
Includes(message, phrase) == phrase \in message

\* The error the catch block throws at once for the caught error, or
\* <<>> when it throws none: the empty-response AIAPIError thrown in the try
\* block is caught here as well, with a message that holds no phrase.
ThrownAtOnce(outcome) ==
    IF outcome.kind # "error" THEN <<>>
    ELSE IF Includes(outcome.message, "rate limit")
    THEN <<AIAPIError("AI service rate limit exceeded. Please try again later.",
                      429, TRUE)>>
    ELSE IF Includes(outcome.message, "insufficient credits")
              \/ Includes(outcome.message, "quota")
    THEN <<AIAPIError("AI service quota exceeded. Please try again later.",
                      503, FALSE)>>
    ELSE IF Includes(outcome.message, "model not found")
    THEN <<AIAPIError("AI model temporarily unavailable.", 503, FALSE)>>
    ELSE IF Includes(outcome.message, "timeout")
    THEN <<AIAPIError("AI service timeout.", 504, TRUE)>>
    ELSE <<>>

\* The error thrown when the last attempt has failed.
FinalError(outcome) ==
    IF outcome.kind = "empty"
    THEN AIAPIError("Empty response from AI service", 502, TRUE)
    ELSE AIAPIError("AI service temporarily unavailable. Please try again later.",
                    503, TRUE)

\* Math.pow(2, attempt) * 1000
BackoffMs(attempt) == (2 ^ attempt) * 1000

\* generateAIResponse(userMessage, maxRetries) is called: an empty
\* sanitized message is refused before any attempt.
AIStart(userMessage, maxRetries) ==
    /\ call = NoCall
    /\ call' = IF SanitizeUserInput(userMessage) = <<>>
               THEN [op |-> "ai", at |-> "thrown", maxRetries |-> maxRetries,
                     attempt |-> 0, calls |-> 0, cause |-> [kind |-> "input"],
                     wait |-> 0,
                     err |-> AIAPIError("Invalid or empty message provided",
                                        400, FALSE)]
               ELSE [op |-> "ai", at |-> "attempt", maxRetries |-> maxRetries,
                     attempt |-> 1, calls |-> 0, cause |-> [kind |-> "none"],
                     wait |-> 0,
                     err |-> AIAPIError("", 0, FALSE)]
    /\ UNCHANGED <<now, sweepDue, limiters, store, pc, rq, issued, gwin, unswept,
          users, mail>>

\* One turn of the loop: generateText is awaited and its outcome handled.
AIAttempt(outcome) ==
    /\ call.op = "ai" /\ call.at = "attempt"
    /\ LET c == [call EXCEPT !.calls = @ + 1, !.cause = outcome]
       IN  call' =
             IF outcome.kind = "text" THEN [c EXCEPT !.at = "returned"]
             ELSE IF ThrownAtOnce(outcome) # <<>>
             THEN [c EXCEPT !.at = "thrown", !.err = ThrownAtOnce(outcome)[1]]
             ELSE IF call.attempt < call.maxRetries
             THEN [c EXCEPT !.at = "backoff", !.wait = BackoffMs(call.attempt)]
             ELSE [c EXCEPT !.at = "thrown", !.err = FinalError(outcome)]
    /\ UNCHANGED <<now, sweepDue, limiters, store, pc, rq, issued, gwin, unswept,
          users, mail>>

\* The back-off timer fires: continue with the next attempt.
AIBackoffDone ==
    /\ call.op = "ai" /\ call.at = "backoff"
    /\ call' = [call EXCEPT !.at = "attempt", !.attempt = @ + 1, !.wait = 0]
    /\ UNCHANGED <<now, sweepDue, limiters, store, pc, rq, issued, gwin, unswept,
          users, mail>>

NextAI ==
    \/ \E m \in MessageTexts, n \in 1..DefaultMaxRetries : AIStart(m, n)
    \/ \E o \in AIOutcomes : AIAttempt(o)
    \/ AIBackoffDone

SpecAI == Init /\ [][NextAI]_vars

\* How the function classifies a failed attempt: the retryable flag of the
\* AIAPIError it makes of it.
Retryable(outcome) ==
    IF ThrownAtOnce(outcome) # <<>> THEN ThrownAtOnce(outcome)[1].retryable
    ELSE FinalError(outcome).retryable

\* C23: a failed attempt is followed by a back-off wait and a further
\* attempt exactly when it is not the last attempt and its error is
\* classified retryable (rate limit, timeout, empty response); an error
\* classified non-retryable is thrown without a further attempt.
C23_RetryIffRetryable ==
    (call.op = "ai" /\ call.cause.kind \in {"empty", "error"}) =>
        /\ call.at = "backoff" <=>
              (call.attempt < call.maxRetries /\ Retryable(call.cause))
        /\ (call.at = "thrown" /\ ~call.err.retryable) =>
              call.calls = call.attempt

\* ------------------------------------------------- withDatabaseConnection

\* The default of withDatabaseConnection's parameter maxRetries.
DbDefaultMaxRetries == 3

\* const retryableCodes
RetryableCodes ==
    {"08000", "08003", "08006", "53300", "57P01", "57P02", "57P03"}

\* The codes transformDatabaseError has a message of its own for.
TransformedCodes ==
    {"23505", "23503", "23502", "23514", "42P01", "42703"}

\* What an operation can throw: an object with a code (a driver error), an
\* Error or an object without one, or a value that is no object.
NoCode == "undefined"

ThrownValues ==
    { [type |-> "object", code |-> c, message |-> "driver"] :
        c \in RetryableCodes \cup TransformedCodes \cup {"42601"} }
      \cup { [type |-> "object", code |-> NoCode, message |-> m] :
               m \in {"failed", ""} }
      \cup { [type |-> "string", code |-> NoCode, message |-> ""],
             [type |-> "undefined", code |-> NoCode, message |-> ""] }

\* Variant: every error is retried.
IsRetryableErrorAlways(error) == TRUE

\* error && typeof error === "object" && "code" in error
\*    ? retryableCodes.includes(error.code) : false
IsRetryableError(error) ==
    /\ error.type = "object"
    /\ error.code # NoCode
    /\ error.code \in RetryableCodes

\* Variant: the error is passed on as it is.
TransformDatabaseErrorRaw(error) ==
    [name |-> "Error", message |-> error.message, code |-> error.code,
     originalError |-> error]

\* transformDatabaseError: always a new DatabaseError.
TransformDatabaseError(error) ==
    LET message ==
          IF error.type # "object" THEN "Unknown database error occurred"
          ELSE CASE error.code = "23505" ->
                      "A record with this information already exists"
                 [] error.code = "23503" -> "Referenced record does not exist"
                 [] error.code = "23502" -> "Required field is missing"
                 [] error.code = "23514" -> "Invalid data provided"
                 [] error.code = "42P01" -> "Database table not found"
                 [] error.code = "42703" -> "Database column not found"
                 [] OTHER -> IF error.message # "" THEN error.message
                             ELSE "Database operation failed"
    IN  [name |-> "DatabaseError", message |-> message,
         code |-> IF error.type = "object" THEN error.code ELSE NoCode,
         originalError |-> error]

\* let lastError: Error, before the first catch.
NoThrown == [type |-> "undefined", code |-> NoCode, message |-> ""]

\* withDatabaseConnection(operation, maxRetries) is called.  With no turn
\* of the loop to run, the throw after the loop is reached at once.
DBStart(maxRetries) ==
    /\ call = NoCall
    /\ call' = [op |-> "db", maxRetries |-> maxRetries, calls |-> 0,
                failed |-> FALSE, lastError |-> NoThrown,
                at |-> IF maxRetries >= 1 THEN "attempt" ELSE "thrown",
                attempt |-> 1,
                err |-> TransformDatabaseError(NoThrown)]
    /\ UNCHANGED <<now, sweepDue, limiters, store, pc, rq, issued, gwin, unswept,
          users, mail>>

\* One turn of the loop, the operation returning.
DBReturn ==
    /\ call.op = "db" /\ call.at = "attempt"
    /\ call' = [call EXCEPT !.calls = @ + 1, !.failed = FALSE,
                            !.at = "returned"]
    /\ UNCHANGED <<now, sweepDue, limiters, store, pc, rq, issued, gwin, unswept,
          users, mail>>

\* One turn of the loop, the operation throwing error.
DBThrow(error) ==
    /\ call.op = "db" /\ call.at = "attempt"
    /\ LET c == [call EXCEPT !.calls = @ + 1, !.failed = TRUE,
                             !.lastError = error]
       IN  call' =
             IF IsRetryableError(error) /\ call.attempt < call.maxRetries
             THEN [c EXCEPT !.at = "backoff"]
             ELSE [c EXCEPT !.at = "thrown",
                            !.err = TransformDatabaseError(error)]
    /\ UNCHANGED <<now, sweepDue, limiters, store, pc, rq, issued, gwin, unswept,
          users, mail>>

\* The back-off timer fires: continue with the next attempt.
DBBackoffDone ==
    /\ call.op = "db" /\ call.at = "backoff"
    /\ call' = [call EXCEPT !.at = "attempt", !.attempt = @ + 1]
    /\ UNCHANGED <<now, sweepDue, limiters, store, pc, rq, issued, gwin, unswept,
          users, mail>>

NextDB ==
    \/ \E n \in 0..DbDefaultMaxRetries : DBStart(n)
    \/ DBReturn
    \/ \E e \in ThrownValues : DBThrow(e)
    \/ DBBackoffDone

SpecDB == Init /\ [][NextDB]_vars

EndpointTickMs == 30000
MaxTimeEndpoints == 60000
MaxEndpointRequests == 6

\* The limiters the module exports: auth, email, api, chat.
AuthRateLimit ==
    Policy(15 * 60 * 1000, 5,
           "Too many authentication attempts. Please try again later.")
EmailRateLimit ==
    Policy(60 * 1000, 2,
           "Email rate limit exceeded. Please wait before sending another email.")
ApiRateLimit ==
    Policy(60 * 1000, 60,
           "API rate limit exceeded. Please slow down your requests.")
ChatRateLimit ==
    Policy(60 * 1000, 20,
           "Too many chat messages. Please wait before sending another message.")

PrebuiltLimiters == <<AuthRateLimit, EmailRateLimit, ApiRateLimit, ChatRateLimit>>

\* The POST endpoints: the limiter each awaits (its place in the list
\* above), the offset it adds to Date.now() for the reset header of its 429
\* response, that response's error text, whether the body is parsed before
\* the limiter is called, and the ways the handler can end once the limiter
\* has let the request pass: the status and what the handler did on the way.
Endpoint(name, limiter, offset, error, parseFirst, paths) ==
    [name |-> name, limiter |-> limiter, resetOffset |-> offset,
     error |-> error, parseFirst |-> parseFirst, paths |-> paths]

Path(status, effects) == [status |-> status, effects |-> effects]

ChatPost ==
    Endpoint("chat", 4, 60 * 1000, "Too many messages", FALSE,
        { Path(400, {"parse"}),
          Path(400, {"parse", "validate"}),
          Path(503, {"parse", "validate", "db"}),
          Path(200, {"parse", "validate", "db", "ai"}),
          Path(429, {"parse", "validate", "db", "ai"}),
          Path(502, {"parse", "validate", "db", "ai"}) })

LoginPost ==
    Endpoint("login", 1, 15 * 60 * 1000, "Too many login attempts", FALSE,
        { Path(400, {"parse"}),
          Path(400, {"parse", "validate"}),
          Path(503, {"parse", "validate", "db"}),
          Path(401, {"parse", "validate", "db"}),
          Path(200, {"parse", "validate", "db", "email"}) })

RegisterPost ==
    Endpoint("register", 1, 15 * 60 * 1000, "Too many registration attempts",
        FALSE,
        { Path(400, {"parse"}),
          Path(400, {"parse", "validate"}),
          Path(409, {"parse", "validate", "db"}),
          Path(400, {"parse", "validate", "db"}),
          Path(200, {"parse", "validate", "db", "email"}) })

\* The two branches of the forgot-password POST, for a body that parses:
\* a body that does not is answered before any limiter is called.
ResetPost ==
    Endpoint("reset", 1, 15 * 60 * 1000, "Too many password reset attempts",
        TRUE,
        { Path(400, {"parse", "validate"}),
          Path(400, {"parse", "validate", "db"}),
          Path(200, {"parse", "validate", "db", "email"}) })

ForgotPost ==
    Endpoint("forgot", 2, 60 * 1000, "Email rate limit exceeded", TRUE,
        { Path(400, {"parse", "validate"}),
          Path(200, {"parse", "validate", "db"}),
          Path(200, {"parse", "validate", "db", "email"}) })

Endpoints == {ChatPost, LoginPost, RegisterPost, ResetPost, ForgotPost}

InitEndpoints ==
    /\ InitCommon
    /\ limiters = PrebuiltLimiters
    /\ gwin = [i \in 1..4 |-> [k \in Keys |-> NoWindow]]
    /\ call = NoCall

\* No headers.
NewHeaders == [n \in {} |-> <<>>]

\* The 429 response of an endpoint for the RateLimitError err, made at
\* time t: addRateLimitHeaders(headers, error.limit, error.remaining,
\* Date.now() + offset, error.retryAfter) and the JSON body.
TooManyRequests(ep, err, t) ==
    [status |-> 429,
     headers |-> AddRateLimitHeaders(NewHeaders, err.limit, err.remaining,
                                     t + ep.resetOffset, <<err.retryAfter>>),
     error |-> ep.error,
     retryAfter |-> err.retryAfter]

\* Variant: the handler goes on whatever the limiter did.
ProceedsAlways(out) == TRUE

\* await limiter(request) returns, and the handler goes on, when the
\* check has not thrown.
Proceeds(out) == ~out.thrown

\* A request of client c reaches the endpoint ep: the handler runs up to
\* the end of the limiter's check (after request.json() where the body is
\* parsed first) and, on a RateLimitError, to its 429 response.
EndpointCall(ep, c) ==
    LET key == DefaultKeyGenerator(c)
        i == ep.limiter
        p == limiters[i]
        out == RateLimitCheck(store, key, now, p)
        ref == RateLimitCheck(unswept, key, now, p)
        g == Observed(gwin[i][key], now, p.windowMs, out.thrown)
        before == IF ep.parseFirst THEN {"parse"} ELSE {}
    IN  /\ call.op = "endpoint" => call.at = "responded"
        /\ issued < MaxEndpointRequests
        /\ issued' = issued + 1
        /\ store' = out.store
        /\ unswept' = ref.store
        /\ gwin' = [gwin EXCEPT ![i][key] = g]
        /\ call' = [op |-> "endpoint", ep |-> ep.name, at |-> "limited",
                    time |-> now,
                    check |-> CheckRecord(i, key, now, store, out, g, ref),
                    effects |-> before,
                    resp |-> IF Proceeds(out) THEN [status |-> 0]
                             ELSE TooManyRequests(ep, out.err, now)]
        /\ UNCHANGED <<now, sweepDue, limiters, pc, rq, users, mail>>

\* The handler goes on after the limiter: it responds at once when its
\* 429 response is made, and otherwise takes one of its ways to the end.
EndpointFinish(ep, path) ==
    /\ call.op = "endpoint" /\ call.at = "limited" /\ call.ep = ep.name
    /\ path \in ep.paths
    /\ call' = IF ~Proceeds(call.check)
               THEN [call EXCEPT !.at = "responded"]
               ELSE [call EXCEPT !.at = "responded",
                                 !.effects = @ \cup path.effects,
                                 !.resp = [status |-> path.status]]
    /\ UNCHANGED <<now, sweepDue, limiters, store, pc, rq, issued, gwin,
                   unswept, users, mail>>

\* Time passes between two requests.
EndpointTick ==
    /\ call.op = "endpoint" => call.at = "responded"
    /\ now + EndpointTickMs <= MaxTimeEndpoints
    /\ now' = now + EndpointTickMs
    /\ call' = NoCall
    /\ UNCHANGED <<sweepDue, limiters, store, pc, rq, issued, gwin, unswept,
                   users, mail>>

NextEndpoints ==
    \/ \E ep \in Endpoints, c \in TieredClients : EndpointCall(ep, c)
    \/ \E ep \in Endpoints : \E path \in ep.paths : EndpointFinish(ep, path)
    \/ EndpointTick
    \/ Sweep

SpecEndpoints == InitEndpoints /\ [][NextEndpoints]_vars

\* ------------------------------------------------ properties, endpoints

\* The endpoints that call their limiter before anything else.
LimiterFirst == {"chat", "login", "register"}

\* C22: in the chat POST, login and register endpoints a request the
\* limiter denies is answered with status 429, the error's retryAfter and
\* the rate-limit headers, and the handler has parsed and validated no
\* body, reached no database, made no AI call and sent no email; whatever
\* the handler did, it did after the limiter let the request pass.
C22_LimiterFirst ==
    (call.op = "endpoint" /\ call.ep \in LimiterFirst) =>
        /\ call.check.thrown =>
            /\ call.effects = {}
            /\ call.resp.status = 429
            /\ call.resp.retryAfter = call.check.err.retryAfter
            /\ {"X-RateLimit-Limit", "X-RateLimit-Remaining",
                "X-RateLimit-Reset", "Retry-After"}
                  \subseteq DOMAIN call.resp.headers
            /\ ParseDigits(call.resp.headers["Retry-After"])
                  = call.check.err.retryAfter
            /\ ParseDigits(call.resp.headers["X-RateLimit-Limit"])
                  = PolicyOf(call.check).max
        /\ (~call.check.thrown /\ call.at = "limited") => call.effects = {}
        /\ call.effects # {} => ~call.check.thrown

\* A login request denied and answered, nothing else done.
C22_Witness ==
    /\ call.op = "endpoint"
    /\ call.ep = "login"
    /\ call.at = "responded"
    /\ call.check.thrown
    /\ call.resp.status = 429
    /\ call.effects = {}

\* C25: each pre-built limiter counts a client's requests in an entry and
\* a window of its own: the count and the window a check leaves are those
\* of the checks made through the same limiter, and it denies exactly
\* above its own max.
C25_PrebuiltSeparate ==
    call.op = "endpoint" =>
        LET c == call.check
            g == gwin[c.tier][c.key]
        IN  /\ c.post.count = c.seq
            /\ c.post.resetTime = g.start + PolicyOf(c).windowMs
            /\ c.thrown <=> c.seq > PolicyOf(c).max

\* C26: the retryAfter of a RateLimitError is at most the window length,
\* in seconds rounded up, of the limiter that raised it.
C26_RetryAfterWithinWindow ==
    (call.op = "endpoint" /\ call.check.thrown) =>
        call.check.err.retryAfter
            <= CeilDiv(PolicyOf(call.check).windowMs, 1000)

\* C27: in a 429 response the X-RateLimit-Reset header is resetTime / 1000,
\* rounded up, of the entry that caused the denial, and is within a second
\* of the response time plus Retry-After.
C27_ResetHeaderIsWindowEnd ==
    (call.op = "endpoint" /\ call.check.thrown) =>
        LET reset == ParseDigits(call.resp.headers["X-RateLimit-Reset"])
            retry == ParseDigits(call.resp.headers["Retry-After"])
            sent == CeilDiv(call.time, 1000)
        IN  /\ reset = CeilDiv(call.check.post.resetTime, 1000)
            /\ reset - (sent + retry) \in {-1, 0, 1}

\* ------------------------------------------------- fixed-window burst

\* The horizon and the number of checks of the runs that look at the
\* checks a limiter lets through over time.
MaxTimeBurst == 2500
MaxBurstChecks == 6

BurstPolicies == { Policy(1000, m, "Too many requests") : m \in {1, 2} }

\* One limiter; the ledger of the checks that returned normally is empty.
InitBurst ==
    /\ InitCommon
    /\ limiters \in { <<p>> : p \in BurstPolicies }
    /\ gwin = [i \in {1} |-> [k \in Keys |-> NoWindow]]
    /\ call = [op |-> "burst", passed |-> <<>>]

\* The limiter is called for a request of client c.  A check that returns
\* normally is entered into the ledger with its key, its time and the
\* resetTime of the entry it counted in.
BurstCheck(c) ==
    LET key == DefaultKeyGenerator(c)
        p == limiters[1]
        out == RateLimitCheck(store, key, now, p)
        ref == RateLimitCheck(unswept, key, now, p)
        g == Observed(gwin[1][key], now, p.windowMs, out.thrown)
        entry == [key |-> key, at |-> now, reset |-> out.store[key].resetTime]
    IN  /\ issued < MaxBurstChecks
        /\ issued' = issued + 1
        /\ store' = out.store
        /\ unswept' = ref.store
        /\ gwin' = [gwin EXCEPT ![1][key] = g]
        /\ call' = IF out.thrown THEN call
                   ELSE [call EXCEPT !.passed = Append(@, entry)]
        /\ UNCHANGED <<now, sweepDue, limiters, pc, rq, users, mail>>

BurstTick == ClockTick(MaxTimeBurst)

NextBurst ==
    \/ \E c \in TieredClients : BurstCheck(c)
    \/ BurstTick
    \/ Sweep

SpecBurst == InitBurst /\ [][NextBurst]_vars

\* ---------------------------------------------------- properties, burst

\* The checks of the ledger, by position, that are for key k.
PassedFor(k) ==
    { i \in 1..Len(call.passed) : call.passed[i].key = k }

\* C28: with one limiter on a key, the checks that return normally within
\* any stretch of time no longer than windowMs number at most 2 * max, and
\* those counted in one window (one entry, up to its resetTime) at most
\* max, whatever the times of the checks and of the sweep.
C28_BoundaryBurstBound ==
    call.op = "burst" =>
        \A k \in Keys :
            /\ \A i \in PassedFor(k) :
                 Cardinality({ j \in PassedFor(k) :
                     /\ call.passed[j].at >= call.passed[i].at
                     /\ call.passed[j].at - call.passed[i].at
                           <= limiters[1].windowMs })
                   <= 2 * limiters[1].max
            /\ \A i \in PassedFor(k) :
                 /\ call.passed[i].at < call.passed[i].reset
                 /\ call.passed[i].at
                       >= call.passed[i].reset - limiters[1].windowMs
                 /\ Cardinality({ j \in PassedFor(k) :
                       call.passed[j].reset = call.passed[i].reset })
                      <= limiters[1].max

\* The burst at a window boundary: 2 * max checks returned normally within
\* windowMs, in two windows, a denied check among them, and the sweep ran.
C28_Witness ==
    /\ call.op = "burst"
    /\ limiters[1].max = 2
    /\ Len(call.passed) = 4
    /\ call.passed[4].at - call.passed[1].at <= limiters[1].windowMs
    /\ call.passed[1].reset # call.passed[4].reset
    /\ sweepDue # -1
    /\ issued = MaxBurstChecks

\* ------------------------------------------- the forgot-password POST

\* The number of requests the endpoint is followed for.
MaxForgotRequests == 3

\* The values of the body's fields.  "u@x" is the address of the account of
\* the user table, "U@x" the same address as typed with a capital, "v@x" an
\* address without an account, "ux" no address at all.
Emails == {"u@x", "U@x", "v@x", "ux"}
BodyTokens == {"", "t1", "guess"}
NewPasswords == {"12345", "1234567", "new-password"}

\* The values crypto.randomBytes(32).toString("hex") may return.
RandomTokens == {"t1", "t2"}

\* The bodies: an address alone, or an address, a token and a new password.
Bodies ==
    { [email |-> e] : e \in Emails }
    \cup { [email |-> e, token |-> t, newPassword |-> n] :
             e \in Emails, t \in BodyTokens, n \in NewPasswords }

\* z.string().email(...)
IsEmail(e) == e \in {"u@x", "U@x", "v@x"}

\* email.toLowerCase().trim()
LowerTrim(e) == IF e = "U@x" THEN "u@x" ELSE e

\* forgotPasswordRequestSchema.safeParse(body).success
ForgotRequestValid(body) == IsEmail(body.email)

\* passwordResetSchema.safeParse(body).success
PasswordResetValid(body) ==
    /\ IsEmail(body.email)
    /\ Len(body.token) >= 1
    /\ Len(body.newPassword) >= 6
    /\ Len(body.newPassword) <= 100

\* getUserByEmail(email) on the user table `table`: it throws a
\* DatabaseError when the database fails, and returns the row or null.
GetUserByEmail(table, email, dbOk) ==
    [thrown |-> ~dbOk,
     found |-> dbOk /\ LowerTrim(email) \in DOMAIN table]

\* forgotPassword(email, newPassword): it throws a DatabaseError when the
\* database fails or no user has the address, and otherwise sets the
\* password of the row and returns it.
ForgotPassword(table, email, newPassword, dbOk) ==
    LET user == GetUserByEmail(table, email, dbOk)
    IN  IF Len(newPassword) < 6 \/ user.thrown \/ ~user.found
        THEN [thrown |-> TRUE, table |-> table]
        ELSE [thrown |-> FALSE,
              table |-> [table EXCEPT ![LowerTrim(email)] = newPassword]]

\* A response, and what the handler did on its way to it: the user table
\* it leaves and the emails it hands to sendEmail.
Handled(status, error, message, table, sent) ==
    [status |-> status, error |-> error, message |-> message,
     table |-> table, sent |-> sent]

\* An email: the recipient, the template and the token of its link.
Email(to, template, token) ==
    [to |-> to, template |-> template, token |-> token]

\* The branch for a body with token and newPassword, once authRateLimit
\* has let the request pass.  The token is validated and then not used;
\* forgotPassword returns the updated row, so that the response for a
\* missing row is given only when the row vanishes between the lookup and
\* the update.
ResetBranch(table, body, dbOk) ==
    IF ~PasswordResetValid(body)
    THEN Handled(400, "Invalid request data",
                 "Please check your password reset information", table, {})
    ELSE IF Len(body.newPassword) < 8
    THEN Handled(400, "Password too weak",
                 "New password must be at least 8 characters long", table, {})
    ELSE LET done == ForgotPassword(table, body.email, body.newPassword, dbOk)
         IN  IF done.thrown
             THEN Handled(400, "Password reset failed",
                          "Unable to reset password. Please try again or request a new reset link.",
                          table, {})
             ELSE Handled(200, "", "Password reset successfully", done.table,
                          {Email(body.email, "notification", "")})

SecurityMessage ==
    "If an account with this email exists, a password reset link has been sent."

\* The branch for every other body, once emailRateLimit has let the
\* request pass: resetToken is what crypto.randomBytes returned.
EmailBranch(table, body, dbOk, resetToken) ==
    IF ~ForgotRequestValid(body)
    THEN Handled(400, "Invalid request data",
                 "Please provide a valid email address", table, {})
    ELSE LET user == GetUserByEmail(table, body.email, dbOk)
         IN  IF user.thrown \/ ~user.found
             THEN Handled(200, "", SecurityMessage, table, {})
             ELSE Handled(200, "",
                          "Password reset link has been sent to your email address.",
                          table,
                          {Email(body.email, "passwordReset", resetToken)})

\* if ("token" in body && "newPassword" in body)
IsReset(body) == {"token", "newPassword"} \subseteq DOMAIN body

\* The user table that differs from `table` in the existence of the
\* account with the address of the request, and in nothing else.
OtherTable(table, email) ==
    LET e == LowerTrim(email)
    IN  IF e \in DOMAIN table
        THEN [x \in DOMAIN table \ {e} |-> table[x]]
        ELSE (e :> "a-password") @@ table

\* What crypto.randomBytes may return where the handler calls it; where it
\* does not, no token is drawn.
TokensDrawn(body, dbOk) ==
    IF /\ ~IsReset(body)
       /\ ForgotRequestValid(body)
       /\ GetUserByEmail(users, body.email, dbOk).found
    THEN RandomTokens ELSE {""}

\* The requests come from one client behind a proxy.
ForgotClients == { c \in TieredClients : c.realIP = Null }

InitForgot ==
    /\ InitCommon
    /\ limiters = PrebuiltLimiters
    /\ gwin = [i \in 1..4 |-> [k \in Keys |-> NoWindow]]
    /\ call = NoCall

\* A request of client c with a body that parses reaches the endpoint and
\* is handled to its response; the callback given to setImmediate, which
\* hands the email to sendEmail, runs with it.  dbOk: the database answers.
\* `other` is the response the same request gets, from the same state, when
\* the user table differs in the existence of the account.
ForgotCall(c, body, dbOk, resetToken) ==
    LET key == DefaultKeyGenerator(c)
        ep == IF IsReset(body) THEN ResetPost ELSE ForgotPost
        i == ep.limiter
        p == limiters[i]
        out == RateLimitCheck(store, key, now, p)
        ref == RateLimitCheck(unswept, key, now, p)
        g == Observed(gwin[i][key], now, p.windowMs, out.thrown)
        Branch(table) ==
            IF IsReset(body) THEN ResetBranch(table, body, dbOk)
            ELSE EmailBranch(table, body, dbOk, resetToken)
        done == Branch(users)
        other == Branch(OtherTable(users, body.email))
        denied == [message |-> IF IsReset(body)
                               THEN "Please wait before trying again"
                               ELSE "Please wait before requesting another password reset email"]
                  @@ TooManyRequests(ep, out.err, now)
    IN  /\ issued < MaxForgotRequests
        /\ issued' = issued + 1
        /\ store' = out.store
        /\ unswept' = ref.store
        /\ gwin' = [gwin EXCEPT ![i][key] = g]
        /\ IF Proceeds(out)
           THEN /\ users' = done.table
                /\ mail' = mail \cup done.sent
                /\ call' = [op |-> "forgot", ep |-> ep.name, body |-> body,
                            time |-> now,
                            check |-> CheckRecord(i, key, now, store, out, g, ref),
                            resp |-> [status |-> done.status,
                                      error |-> done.error,
                                      message |-> done.message],
                            other |-> [status |-> other.status,
                                       error |-> other.error,
                                       message |-> other.message]]
           ELSE /\ UNCHANGED <<users, mail>>
                /\ call' = [op |-> "forgot", ep |-> ep.name, body |-> body,
                            time |-> now,
                            check |-> CheckRecord(i, key, now, store, out, g, ref),
                            resp |-> denied,
                            other |-> denied]
        /\ UNCHANGED <<now, sweepDue, limiters, pc, rq>>

NextForgot ==
    \/ \E c \in ForgotClients, body \in Bodies, dbOk \in BOOLEAN :
          \E resetToken \in TokensDrawn(body, dbOk) :
              ForgotCall(c, body, dbOk, resetToken)
    \/ EndpointTick
    \/ Sweep

SpecForgot == InitForgot /\ [][NextForgot]_vars

\* ------------------------------------------- properties, forgot-password

\* A step in which a request with token and newPassword is handled.
ResetStep ==
    /\ issued' = issued + 1
    /\ call'.op = "forgot"
    /\ call'.ep = "reset"

\* The token of the request handled in this step was sent before, in a
\* reset link, to the address of the request.  (A token lasts an hour:
\* none expires within the time the endpoint is followed for.)
TokenWasIssued ==
    \E m \in mail :
        /\ m.template = "passwordReset"
        /\ LowerTrim(m.to) = LowerTrim(call'.body.email)
        /\ m.token = call'.body.token

\* C29: a request with token and newPassword changes a password only when
\* its token was issued before for its email address; with any other token
\* the user table stays as it was, and a well-formed request the limiter
\* lets pass is answered with the invalid-or-expired-token error.
C29_ResetNeedsIssuedToken ==
    [][ ResetStep =>
          /\ users' # users => TokenWasIssued
          /\ ~TokenWasIssued =>
                /\ users' = users
                /\ ( /\ ~call'.check.thrown
                      /\ PasswordResetValid(call'.body)
                      /\ Len(call'.body.newPassword) >= 8 ) =>
                      call'.resp.error = "Invalid or expired reset token"
      ]_vars

\* C30: the status and the message of the response to a request with an
\* email address alone are those the same request gets when the user table
\* differs in the existence of the account with that address.
C30_SameResponseWithoutAccount ==
    (call.op = "forgot" /\ call.ep = "forgot") =>
        /\ call.resp.status = call.other.status
        /\ call.resp.message = call.other.message

====
